---- MODULE Spec2Model ----
(***************************************************************************)
(* Model of src/components/DataSchema.tsx: the attribute closure computed  *)
(* by getAllAttributes / addAttributeAndDependencies, run by the DataSchema *)
(* component's effect and stored in its allAttributes state; and the tabs  *)
(* of the DataSchema component: activeTab, openTabs, manifestData and the  *)
(* handlers handleTabChange, openNewTab and closeTab.                      *)
(*                                                                         *)
(* An attribute object is referred to by its key in dataSchemaMap; the     *)
(* fields the traversal reads are kept in the map entry.  The recursion is *)
(* unfolded into an explicit call stack, one frame per activation of       *)
(* addAttributeAndDependencies.                                            *)
(***************************************************************************)
EXTENDS Integers, Sequences, FiniteSets, TLC

\* ------------------------------------------------------------------ bounds
MaxRoots == 2
MaxRuns == 2
StackLimit == 6
\* calls of getDataSchema made by openNewTab
MaxFetches == 3

\* ------------------------------------------------------------ input shapes
\* the attributes of the schema maps: the label of each, in map order; the id
\* of an attribute is `bts:` followed by its label
LabelTable == << "BulkWESLevel1", "BulkDNALevel1", "Biospecimen" >>

\* the raw attribute names in use: a key of ATTRIBUTE_OVERRIDES, its value,
\* and a name the table does not mention
NameTable == << "Bulk WES Level 1", "Bulk DNA Level 1", "Biospecimen" >>

NumAttrs == Len(LabelTable)
\* dependency entries in a schema map, over all lists together
MaxEdges == NumAttrs - 1

MapIds == 1 .. NumAttrs
\* an id that is a key of no schema map: a dangling reference
DanglingId == 0
DepIds == MapIds \cup {DanglingId}

EdgeKinds == {"requiredDependencies", "conditionalDependencies",
              "exclusiveConditionalDependencies", "validValues"}


ATTRIBUTE_OVERRIDES(text) ==
    CASE text = "Bulk WES Level 1" -> "Bulk DNA Level 1"
      [] text = "Bulk WES Level 2" -> "Bulk DNA Level 2"
      [] text = "Bulk WES Level 3" -> "Bulk DNA Level 3"
      [] text = "Imaging Level 3 Segmentation" -> "Imaging Level 3"
      [] OTHER -> ""

LABEL_OVERRIDES(text) ==
    CASE text = "BulkWESLevel1" -> "BulkDNALevel1"
      [] text = "BulkWESLevel2" -> "BulkDNALevel2"
      [] text = "BulkWESLevel3" -> "BulkDNALevel3"
      [] text = "ImagingLevel3Segmentation" -> "ImagingLevel3"
      [] OTHER -> ""

\* the Manifest/Attribute column cell: ATTRIBUTE_OVERRIDES[a] || a
DisplayAttribute(text) ==
    IF ATTRIBUTE_OVERRIDES(text) # "" THEN ATTRIBUTE_OVERRIDES(text) ELSE text

\* the Label column format: LABEL_OVERRIDES[l] || l
DisplayLabel(text) ==
    IF LABEL_OVERRIDES(text) # "" THEN LABEL_OVERRIDES(text) ELSE text

EmptyAttr(i, n) ==
    [ id |-> i, attribute |-> NameTable[n], label |-> LabelTable[i],
      requiredDependencies |-> << >>, conditionalDependencies |-> << >>,
      exclusiveConditionalDependencies |-> << >>, validValues |-> << >> ]

\* name assignments up to renaming: attribute i takes an earlier attribute's
\* name or the next unused one
Max(S) == CHOOSE x \in S : \A y \in S : y <= x

NameChoices ==
    { f \in [MapIds -> MapIds] :
        \A i \in MapIds :
            f[i] <= 1 + Max({0} \cup { f[j] : j \in 1 .. (i - 1) }) }

Edge == MapIds \X EdgeKinds \X DepIds

RECURSIVE SeqsUpTo(_, _)
SeqsUpTo(S, n) ==
    IF n = 0 THEN { << >> }
    ELSE LET shorter == SeqsUpTo(S, n - 1)
         IN  shorter \cup { Append(s, x) : s \in shorter, x \in S }

AddEdge(m, e) ==
    LET a == m[e[1]]
        k == e[2]
    IN  [ m EXCEPT ![e[1]] =
            CASE k = "requiredDependencies" ->
                    [a EXCEPT !.requiredDependencies = Append(@, e[3])]
              [] k = "conditionalDependencies" ->
                    [a EXCEPT !.conditionalDependencies = Append(@, e[3])]
              [] k = "exclusiveConditionalDependencies" ->
                    [a EXCEPT !.exclusiveConditionalDependencies = Append(@, e[3])]
              [] OTHER ->
                    [a EXCEPT !.validValues = Append(@, e[3])] ]

RECURSIVE AddEdges(_, _)
AddEdges(m, es) ==
    IF es = << >> THEN m ELSE AddEdges(AddEdge(m, Head(es)), Tail(es))

\* every schema map over MapIds with at most MaxEdges dependency entries
SchemaMaps ==
    { AddEdges([ i \in MapIds |-> EmptyAttr(i, f[i]) ], es) :
        f \in NameChoices, es \in SeqsUpTo(Edge, MaxEdges) }

\* every non-empty sequence of at most MaxRoots attributes of the map, each
\* manifest listed once
RootSeqs ==
    { s \in SeqsUpTo(MapIds, MaxRoots) \ { << >> } :
        \A k, l \in 1 .. Len(s) : s[k] = s[l] => k = l }

\* ------------------------------------------------------------------- state
VARIABLES
    dataSchemaMap,      \* props.dataSchemaMap
    schemaData,         \* props.schemaData: the roots, as keys of the map
    stateAllAttributes, \* the component's allAttributes state
    allAttributes,      \* the Set local to getAllAttributes, in insertion order
    stack,              \* activations of addAttributeAndDependencies
    rootIdx,            \* position of schemaData.forEach
    pc,                 \* "idle", "roots", "done", "TypeError", "RangeError"
    runs                \* completed runs of the effect

VARIABLES
    activeTab,          \* the component's activeTab state
    openTabs,           \* the component's openTabs state
    manifestData,       \* the component's manifestData state
    fetching,           \* calls of openNewTab suspended at `await
                        \* getDataSchema`, each with the manifestData of the
                        \* render its closure was made in
    fetches,            \* calls of getDataSchema made so far
    lastCall            \* the handler that ran last, its argument and the
                        \* tab that was active when it ran

tabs == << activeTab, openTabs, manifestData, fetching, fetches, lastCall >>

vars == << dataSchemaMap, schemaData, stateAllAttributes, allAttributes,
           stack, rootIdx, pc, runs, tabs >>

\* the useState initial values of the tabs
Mounted ==
    /\ activeTab = "manifest"
    /\ openTabs = << >>
    /\ manifestData = [ k \in {} |-> k ]
    /\ fetching = << >>
    /\ fetches = 0
    /\ lastCall = [handler |-> "", tab |-> "", active |-> ""]

inputs == << dataSchemaMap, schemaData >>

Init ==
    /\ dataSchemaMap \in SchemaMaps
    /\ schemaData \in RootSeqs
    /\ stateAllAttributes = << >>
    /\ allAttributes = << >>
    /\ stack = << >>
    /\ rootIdx = 1
    /\ pc = "idle"
    /\ runs = 0
    /\ Mounted

\* ---------------------------------------------------------- schema lookups
\* the test `if (dataSchemaMap[depId])`
Resolves(depId) == depId \in DOMAIN dataSchemaMap

\* getDataSchemaValidValues(attribute, dataSchemaMap): the attribute's valid
\* values that are in the map, in list order
getDataSchemaValidValues(attribute) ==
    SelectSeq(dataSchemaMap[attribute].validValues, Resolves)

\* findConditionalAttributes(attribute, dataSchemaMap): the ids of the
\* attributes whose conditional list references this one, in map order
findConditionalAttributes(attribute) ==
    LET ListsIt(i) ==
            \E k \in 1 .. Len(dataSchemaMap[i].conditionalDependencies) :
                dataSchemaMap[i].conditionalDependencies[k] = attribute
    IN  SelectSeq([ i \in 1 .. NumAttrs |-> i ], ListsIt)

Tag(kind, ids) == [ k \in 1 .. Len(ids) |-> << kind, ids[k] >> ]

\* the loops in another order: the conditional dependencies first
DependenciesConditionalFirst(attribute) ==
    Tag("conditionalDependencies",
        dataSchemaMap[attribute].conditionalDependencies)
    \o Tag("requiredDependencies",
           dataSchemaMap[attribute].requiredDependencies)
    \o Tag("exclusiveConditionalDependencies",
           dataSchemaMap[attribute].exclusiveConditionalDependencies)
    \o Tag("validValues", getDataSchemaValidValues(attribute))
    \o Tag("conditionalIf", findConditionalAttributes(attribute))

\* the calls the body of addAttributeAndDependencies makes for a newly added
\* attribute, in program order: the five forEach loops
Dependencies(attribute) ==
    Tag("requiredDependencies", dataSchemaMap[attribute].requiredDependencies)
    \o Tag("conditionalDependencies",
           dataSchemaMap[attribute].conditionalDependencies)
    \o Tag("exclusiveConditionalDependencies",
           dataSchemaMap[attribute].exclusiveConditionalDependencies)
    \o Tag("validValues", getDataSchemaValidValues(attribute))
    \o Tag("conditionalIf", findConditionalAttributes(attribute))

\* no lookup before the call
Unguarded(dep) == TRUE

\* the guard in front of a recursive call: the valid values arrive as
\* objects and are passed on unchecked, every other id is looked up
Guarded(dep) == dep[1] = "validValues" \/ Resolves(dep[2])

\* a membership test of the Set itself: attributeWithManifest is a new object,
\* which the Set never holds
SeenByReference(attribute) == FALSE

\* an attribute counts as seen only once its body has ended: the add placed
\* after the loops
SeenWhenFinished(attribute) ==
    /\ \E k \in 1 .. Len(allAttributes) :
          allAttributes[k].attribute = dataSchemaMap[attribute].attribute
    /\ \A d \in 1 .. Len(stack) :
          stack[d].entered =>
              dataSchemaMap[stack[d].attribute].attribute
                  # dataSchemaMap[attribute].attribute

\* the test reading the component's allAttributes state as well as the Set of
\* the same name
SeenInState(attribute) ==
    \/ \E k \in 1 .. Len(allAttributes) :
          allAttributes[k].attribute = dataSchemaMap[attribute].attribute
    \/ \E k \in 1 .. Len(stateAllAttributes) :
          stateAllAttributes[k].attribute = dataSchemaMap[attribute].attribute

\* the test comparing the names as the table cells show them
SeenByDisplayName(attribute) ==
    \E k \in 1 .. Len(allAttributes) :
        DisplayAttribute(allAttributes[k].attribute)
            = DisplayAttribute(dataSchemaMap[attribute].attribute)

\* the test without its negation
SeenNegated(attribute) ==
    ~ \E k \in 1 .. Len(allAttributes) :
        allAttributes[k].attribute = dataSchemaMap[attribute].attribute

\* Array.from(allAttributes).some(attr => attr.attribute === attribute.attribute)
Seen(attribute) ==
    \E k \in 1 .. Len(allAttributes) :
        allAttributes[k].attribute = dataSchemaMap[attribute].attribute

\* { ...attribute, manifestName }; the dependency lists are copied unchanged
\* and stay in the map entry of the same id
attributeWithManifest(attribute, manifestName) ==
    [ id |-> dataSchemaMap[attribute].id,
      attribute |-> dataSchemaMap[attribute].attribute,
      label |-> dataSchemaMap[attribute].label,
      manifestName |-> manifestName ]

\* the callee's own label passed instead of manifestName
PassedOwnLabel(frame, dep) == dataSchemaMap[dep[2]].label

\* the manifestName a recursive call is given
PassedManifestName(frame, dep) == frame.manifestName

\* the manifestName the call for a root is given: attr.label
RootManifestName(attr) == dataSchemaMap[attr].label

Frame(attribute, manifestName) ==
    [ attribute |-> attribute, manifestName |-> manifestName,
      entered |-> FALSE, todo |-> << >> ]

Top == stack[Len(stack)]
Pop == SubSeq(stack, 1, Len(stack) - 1)
SetTop(f) == [ stack EXCEPT ![Len(stack)] = f ]

\* a call: the engine's call stack is finite
Call(base, f) ==
    IF Len(base) >= StackLimit
    THEN /\ pc' = "RangeError"
         /\ stack' = base
    ELSE /\ pc' = pc
         /\ stack' = Append(base, f)

\* ------------------------------------------------------------------ actions
\* the effect of DataSchema runs getAllAttributes(props.schemaData,
\* props.dataSchemaMap): a new empty Set
GetAllAttributes ==
    /\ pc \in {"idle", "done"}
    /\ runs < MaxRuns
    /\ allAttributes' = << >>
    /\ stack' = << >>
    /\ rootIdx' = 1
    /\ pc' = "roots"
    /\ UNCHANGED << tabs, inputs, stateAllAttributes, runs >>

\* schemaData.forEach(attr => addAttributeAndDependencies(attr, attr.label))
NextRoot ==
    /\ pc = "roots"
    /\ stack = << >>
    /\ rootIdx <= Len(schemaData)
    /\ Call(stack, Frame(schemaData[rootIdx],
                         RootManifestName(schemaData[rootIdx])))
    /\ rootIdx' = rootIdx + 1
    /\ UNCHANGED << tabs, inputs, stateAllAttributes, allAttributes, runs >>

\* entry of addAttributeAndDependencies: the test against the Set and the add
AddAttribute ==
    /\ pc = "roots"
    /\ stack # << >>
    /\ ~Top.entered
    /\ IF ~Resolves(Top.attribute)
       THEN \* attribute is undefined: attribute.attribute throws
            /\ pc' = "TypeError"
            /\ UNCHANGED << allAttributes, stack >>
       ELSE IF Seen(Top.attribute)
       THEN /\ stack' = Pop
            /\ UNCHANGED << allAttributes, pc >>
       ELSE /\ allAttributes' =
                Append(allAttributes,
                       attributeWithManifest(Top.attribute, Top.manifestName))
            /\ stack' = SetTop([ Top EXCEPT !.entered = TRUE,
                                            !.todo = Dependencies(Top.attribute) ])
            /\ pc' = pc
    /\ UNCHANGED << tabs, inputs, stateAllAttributes, rootIdx, runs >>

\* one iteration of a forEach loop of the body: a recursive call, or a skip
\* of an id that is not in the map
Descend ==
    /\ pc = "roots"
    /\ stack # << >>
    /\ Top.entered
    /\ Top.todo # << >>
    /\ LET dep == Head(Top.todo)
           rest == SetTop([ Top EXCEPT !.todo = Tail(@) ])
       IN  IF Guarded(dep)
           THEN Call(rest, Frame(dep[2], PassedManifestName(Top, dep)))
           ELSE /\ stack' = rest
                /\ pc' = pc
    /\ UNCHANGED << tabs, inputs, stateAllAttributes, allAttributes, rootIdx, runs >>

\* the body of addAttributeAndDependencies ends
Return ==
    /\ pc = "roots"
    /\ stack # << >>
    /\ Top.entered
    /\ Top.todo = << >>
    /\ stack' = Pop
    /\ UNCHANGED << tabs, inputs, stateAllAttributes, allAttributes, rootIdx, pc,
                    runs >>

\* return Array.from(allAttributes), stored by setAllAttributes
Finish ==
    /\ pc = "roots"
    /\ stack = << >>
    /\ rootIdx > Len(schemaData)
    /\ stateAllAttributes' = allAttributes
    /\ pc' = "done"
    /\ runs' = runs + 1
    /\ UNCHANGED << tabs, inputs, allAttributes, stack, rootIdx >>

Step == NextRoot \/ AddAttribute \/ Descend \/ Return \/ Finish

Next == GetAllAttributes \/ Step

Spec == Init /\ [][Next]_vars

\* the run of the effect after mounting; the traversal is synchronous: once
\* started it runs to its end
FirstRun == (GetAllAttributes /\ runs = 0) \/ Step

FairSpec == Init /\ [][FirstRun]_vars /\ WF_vars(Step)

\* ------------------------------------------------- the schema as a graph
ListSet(s) == { s[k] : k \in 1 .. Len(s) }

\* the attributes one edge away from i: the entries of its four lists that
\* are keys of the map, and the attributes whose conditional list names i
EdgeTargets(i) ==
    ( ( ListSet(dataSchemaMap[i].requiredDependencies)
        \cup ListSet(dataSchemaMap[i].conditionalDependencies)
        \cup ListSet(dataSchemaMap[i].exclusiveConditionalDependencies)
        \cup ListSet(dataSchemaMap[i].validValues) )
      \cap DOMAIN dataSchemaMap )
    \cup { j \in DOMAIN dataSchemaMap :
             i \in ListSet(dataSchemaMap[j].conditionalDependencies) }

RECURSIVE Reachable(_)
Reachable(S) ==
    LET T == S \cup UNION { EdgeTargets(i) : i \in S }
    IN  IF T = S THEN S ELSE Reachable(T)

Roots == ListSet(schemaData)

\* the positions of attribute i in the returned list
Occurrences(i) ==
    { k \in 1 .. Len(stateAllAttributes) : stateAllAttributes[k].id = i }

OutputIds == [ k \in 1 .. Len(stateAllAttributes) |-> stateAllAttributes[k].id ]

NameOf(i) == dataSchemaMap[i].attribute

\* ------------------------------------------------------------------ claims
\* C1: closure completeness.  When getAllAttributes has returned, every
\* attribute reachable from a root by a chain of required, conditional,
\* exclusive-conditional, valid-value or conditional-if edges that resolve in
\* the map is in the returned list exactly once.
ClosureCompleteness ==
    pc = "done" =>
        \A i \in Reachable(Roots) : Cardinality(Occurrences(i)) = 1

\* attribute i has no entry in any of its four lists
NoLists(i) ==
    /\ dataSchemaMap[i].requiredDependencies = << >>
    /\ dataSchemaMap[i].conditionalDependencies = << >>
    /\ dataSchemaMap[i].exclusiveConditionalDependencies = << >>
    /\ dataSchemaMap[i].validValues = << >>

\* the cycle of the claim: attributes a and b, named differently, whose only
\* edges are a's conditional dependency on b and b's on a, resolved from [a]
CycleCase(a, b) ==
    /\ a # b
    /\ NameOf(a) # NameOf(b)
    /\ dataSchemaMap[a] =
           [ dataSchemaMap[a] EXCEPT !.requiredDependencies = << >>,
                                     !.conditionalDependencies = << b >>,
                                     !.exclusiveConditionalDependencies = << >>,
                                     !.validValues = << >> ]
    /\ dataSchemaMap[b] =
           [ dataSchemaMap[b] EXCEPT !.requiredDependencies = << >>,
                                     !.conditionalDependencies = << a >>,
                                     !.exclusiveConditionalDependencies = << >>,
                                     !.validValues = << >> ]
    /\ EdgeTargets(a) = {b}
    /\ EdgeTargets(b) = {a}
    /\ schemaData = << a >>

\* C2: cycle safety.  Every started resolution ends, returning normally,
\* whatever cycles the map contains; and from root [A], where A conditionally
\* depends on B and B on A, the returned list is A then B, each once.
CycleSafety ==
    /\ [](pc # "RangeError")
    /\ (pc = "roots") ~> (pc = "done")
    /\ [](pc = "done" =>
            \A a, b \in MapIds : CycleCase(a, b) => OutputIds = << a, b >>)

CycleSafetyWitness ==
    /\ pc = "done"
    /\ \E a, b \in MapIds : CycleCase(a, b) /\ Len(stateAllAttributes) = 2

\* the manifest names a record of the returned list holds
ManifestNames(entry) == { entry.manifestName }

LabelOf(i) == dataSchemaMap[i].label

\* C3: provenance union.  Roots R1 and R2 both reach attribute C, the three
\* named differently: C is in the returned list once and its record lists
\* the manifest names of both roots.
ProvenanceUnion ==
    pc = "done" =>
        \A r1, r2, c \in MapIds :
            ( /\ schemaData = << r1, r2 >>
              /\ Cardinality({ NameOf(r1), NameOf(r2), NameOf(c) }) = 3
              /\ c \in Reachable({r1}) \cap Reachable({r2}) )
            => /\ Cardinality(Occurrences(c)) = 1
               /\ \A k \in Occurrences(c) :
                     { LabelOf(r1), LabelOf(r2) }
                         \subseteq ManifestNames(stateAllAttributes[k])

\* every entry of the four lists of attribute i
ListEntries(i) ==
    ListSet(dataSchemaMap[i].requiredDependencies)
    \cup ListSet(dataSchemaMap[i].conditionalDependencies)
    \cup ListSet(dataSchemaMap[i].exclusiveConditionalDependencies)
    \cup ListSet(dataSchemaMap[i].validValues)

\* attribute a, the only root, lists an id that is no key of the map and has
\* no edge that resolves
DanglingCase(a) ==
    /\ schemaData = << a >>
    /\ DanglingId \in ListEntries(a)
    /\ EdgeTargets(a) = {}

\* C4: dangling-edge tolerance.  No call is ever made on an id that is not in
\* the map and no error is raised; every record of the Set is a map entry;
\* and the resolution from [A], A listing a dangling id and having no edge
\* that resolves, returns A alone.
DanglingEdgeTolerance ==
    /\ pc # "TypeError"
    /\ \A d \in 1 .. Len(stack) : stack[d].attribute \in DOMAIN dataSchemaMap
    /\ \A k \in 1 .. Len(allAttributes) :
          allAttributes[k].id \in DOMAIN dataSchemaMap
    /\ pc = "done" =>
          \A a \in MapIds : DanglingCase(a) => OutputIds = << a >>

DanglingEdgeWitness ==
    /\ pc = "done"
    /\ \E a \in MapIds : DanglingCase(a) /\ OutputIds = << a >>

\* attribute a, the only root, names itself in a list of its own and has no
\* other edge
SelfCase(a) ==
    /\ schemaData = << a >>
    /\ ListEntries(a) = {a}
    /\ EdgeTargets(a) = {a}

\* C5: self-reference.  The resolution from [A], A naming itself in its own
\* lists and having no other edge, never nests deeper than the one re-entrant
\* call, ends, and returns A alone.
SelfReference ==
    /\ [](\A a \in MapIds : SelfCase(a) => Len(stack) <= 2)
    /\ \A a \in MapIds :
          (SelfCase(a) /\ pc = "roots")
              ~> (pc = "done" /\ OutputIds = << a >>)

SelfReferenceWitness ==
    /\ pc = "done"
    /\ \E a \in MapIds : SelfCase(a) /\ OutputIds = << a >>

\* C6: determinism.  A run of getAllAttributes on the inputs of an earlier
\* run returns the list the earlier run returned: same records, same
\* manifestName on each, same order.
Determinism ==
    [][ (pc # "done" /\ pc' = "done" /\ runs >= 1)
            => stateAllAttributes' = stateAllAttributes ]_vars

DeterminismWitness ==
    /\ pc = "done"
    /\ runs = 2
    /\ Len(stateAllAttributes) >= 2

\* the attributes addAttributeAndDependencies has been called on when the
\* list is returned: the roots and the edge targets of the returned records
Called ==
    Roots \cup UNION { EdgeTargets(stateAllAttributes[k].id) :
                         k \in 1 .. Len(stateAllAttributes) }

OutputNames ==
    { stateAllAttributes[k].attribute : k \in 1 .. Len(stateAllAttributes) }

\* attributes i and j differ in raw name and the override table maps the
\* two names to one display name
OverridePair(i, j) ==
    /\ NameOf(i) # NameOf(j)
    /\ DisplayAttribute(NameOf(i)) = DisplayAttribute(NameOf(j))

\* C7: identity versus display override.  Two attributes the resolution is
\* called on whose raw names differ only by the override table both have a
\* record of their own raw name in the returned list: the overrides merge
\* nothing.
OverrideIndependence ==
    pc = "done" =>
        \A i, j \in Called :
            OverridePair(i, j) =>
                \E k, l \in 1 .. Len(stateAllAttributes) :
                    /\ k # l
                    /\ stateAllAttributes[k].attribute = NameOf(i)
                    /\ stateAllAttributes[l].attribute = NameOf(j)

OverrideIndependenceWitness ==
    /\ pc = "done"
    /\ \E i, j \in Called : OverridePair(i, j)
    /\ { "Bulk WES Level 1", "Bulk DNA Level 1" } \subseteq OutputNames

\* C8 as stated: a single root with empty required, conditional and
\* exclusive-conditional lists and no valid values resolves to a one-element
\* list, whatever else the map holds.
NoDependenciesAlone ==
    pc = "done" =>
        \A r \in MapIds :
            (schemaData = << r >> /\ NoLists(r))
                => Len(stateAllAttributes) = 1

\* C8 amended: such a root that, besides, no attribute of the map names in
\* its conditional dependencies resolves to itself alone, whatever else the
\* map holds.
NoEdgesAlone ==
    pc = "done" =>
        \A r \in MapIds :
            ( /\ schemaData = << r >>
              /\ NoLists(r)
              /\ \A j \in MapIds :
                    r \notin ListSet(dataSchemaMap[j].conditionalDependencies) )
                => OutputIds = << r >>

NoEdgesAloneWitness ==
    /\ pc = "done"
    /\ \E r \in MapIds :
          /\ schemaData = << r >>
          /\ NoLists(r)
          /\ \A j \in MapIds :
                r \notin ListSet(dataSchemaMap[j].conditionalDependencies)
          /\ \E j \in MapIds : j # r /\ EdgeTargets(j) # {}
          /\ OutputIds = << r >>


\* C9: manifest-name propagation.  Every activation on the stack holds the
\* label of the root under traversal as manifestName, and every record added
\* to the Set carries that label.
ManifestNamePropagation ==
    [][ /\ \A d \in 1 .. Len(stack') :
              stack'[d].manifestName = LabelOf(schemaData[rootIdx' - 1])
        /\ Len(allAttributes') > Len(allAttributes) =>
              allAttributes'[Len(allAttributes')].manifestName
                  = LabelOf(schemaData[rootIdx' - 1]) ]_vars

ManifestNamePropagationWitness ==
    /\ pc = "done"
    /\ \E k \in 1 .. Len(stateAllAttributes) :
          /\ stateAllAttributes[k].id \notin Roots
          /\ stateAllAttributes[k].label # stateAllAttributes[k].manifestName
          /\ stateAllAttributes[k].manifestName = LabelOf(schemaData[1])

\* depth-first discovery order, written as a recursion over the map: the ids
\* one edge from i that are in the map, by kind in the order required,
\* conditional, exclusive-conditional, valid-value, conditional-if
InMap(depId) == depId \in DOMAIN dataSchemaMap

EdgeOrder(i) ==
    SelectSeq(dataSchemaMap[i].requiredDependencies, InMap)
    \o SelectSeq(dataSchemaMap[i].conditionalDependencies, InMap)
    \o SelectSeq(dataSchemaMap[i].exclusiveConditionalDependencies, InMap)
    \o SelectSeq(dataSchemaMap[i].validValues, InMap)
    \o LET NamesMe(j) == i \in ListSet(dataSchemaMap[j].conditionalDependencies)
       IN  SelectSeq([ j \in 1 .. NumAttrs |-> j ], NamesMe)

RECURSIVE Discover(_, _)
RECURSIVE DiscoverAll(_, _)
\* the ids discovered so far, extended by what a visit of i discovers
Discover(i, found) ==
    IF \E k \in 1 .. Len(found) : NameOf(found[k]) = NameOf(i)
    THEN found
    ELSE DiscoverAll(EdgeOrder(i), Append(found, i))

DiscoverAll(ids, found) ==
    IF ids = << >> THEN found
    ELSE DiscoverAll(Tail(ids), Discover(Head(ids), found))

IsPrefix(s, t) == Len(s) <= Len(t) /\ SubSeq(t, 1, Len(s)) = s

\* C10: discovery order.  During a run the Set only grows at its end, and the
\* returned list is the depth-first discovery order from the roots in input
\* order with the edge kinds in their fixed order.
DiscoveryOrder ==
    /\ [][ pc = "roots" => IsPrefix(allAttributes, allAttributes') ]_vars
    /\ [](pc = "done" => OutputIds = DiscoverAll(schemaData, << >>))

DiscoveryOrderWitness ==
    /\ pc = "done"
    /\ Len(stateAllAttributes) = 3
    /\ \E i \in MapIds :
          /\ dataSchemaMap[i].requiredDependencies # << >>
          /\ dataSchemaMap[i].conditionalDependencies # << >>
          /\ stateAllAttributes[1].id = i

\* --------------------------------------------------------------------- tabs
\* The tabs of the DataSchema component.  A handler runs in the closure of
\* the latest render, so it reads the current state; the part of openNewTab
\* after `await getDataSchema` runs later, in the closure of the render in
\* which openNewTab was called.

\* the rows of the Manifest table: props.schemaData over a schema map without
\* dependencies, one row per attribute of the map
ManifestRows == [ k \in MapIds |-> k ]

ManifestSchema == [ i \in MapIds |-> EmptyAttr(i, i) ]

\* the argument of onManifestClick: the label of a row
ManifestLabels == { LabelOf(schemaData[k]) : k \in 1 .. Len(schemaData) }

\* the nav links: Manifest, All Attributes and one per open tab
NavTabs == {"manifest", "attributes"} \cup ListSet(openTabs)

\* `bts:${manifestName}`: the id of the attribute with that label
FullId(manifestName) == CHOOSE i \in MapIds : LabelTable[i] = manifestName

\* what the continuation stores for a manifest: schemaDataById[fullId] and
\* its required dependencies looked up in schemaDataById
ManifestEntry(manifestName) ==
    [ schemaData |-> FullId(manifestName),
      requiredDependencies |->
          dataSchemaMap[FullId(manifestName)].requiredDependencies ]

\* { ...data, [manifestName]: entry }
Spread(data, manifestName, entry) ==
    [ k \in (DOMAIN data) \cup {manifestName} |->
        IF k = manifestName THEN entry ELSE data[k] ]

\* a test that never finds the name
IncludesNever(list, manifestName) == FALSE

\* openTabs.includes(manifestName)
Includes(list, manifestName) == manifestName \in ListSet(list)

\* openTabs.filter((tab) => tab !== manifestName)
Filter(list, manifestName) ==
    SelectSeq(list, LAMBDA tab : tab # manifestName)

\* the most recently opened of the tabs left, or the Manifest tab
AfterCloseMostRecent(left) ==
    IF left = << >> THEN "manifest" ELSE left[Len(left)]

\* the argument of setActiveTab in closeTab
AfterClose(left) == "manifest"

RemoveAt(s, k) == [ j \in 1 .. (Len(s) - 1) |-> IF j < k THEN s[j] ELSE s[j + 1] ]

TabInit ==
    /\ dataSchemaMap = ManifestSchema
    /\ schemaData = ManifestRows
    /\ stateAllAttributes = << >>
    /\ allAttributes = << >>
    /\ stack = << >>
    /\ rootIdx = 1
    /\ pc = "idle"
    /\ runs = 0
    /\ Mounted

resolver == << dataSchemaMap, schemaData, stateAllAttributes, allAttributes,
               stack, rootIdx, pc, runs >>

handleTabChange(tab) ==
    /\ activeTab' = tab
    /\ lastCall' = [handler |-> "handleTabChange", tab |-> tab,
                     active |-> activeTab]
    /\ UNCHANGED << resolver, openTabs, manifestData, fetching, fetches >>

\* openNewTab up to its await, or to its end when the tab is open already
openNewTab(manifestName) ==
    /\ IF ~Includes(openTabs, manifestName)
       THEN /\ fetches < MaxFetches
            /\ openTabs' = Append(openTabs, manifestName)
            /\ fetching' = Append(fetching,
                                  [ manifestName |-> manifestName,
                                    manifestData |-> manifestData ])
            /\ fetches' = fetches + 1
            /\ UNCHANGED activeTab
       ELSE /\ activeTab' = manifestName
            /\ UNCHANGED << openTabs, fetching, fetches >>
    /\ lastCall' = [handler |-> "openNewTab", tab |-> manifestName,
                     active |-> activeTab]
    /\ UNCHANGED << resolver, manifestData >>

\* getDataSchema resolves for the k-th suspended call: the rest of openNewTab
getDataSchema(k) ==
    LET call == fetching[k]
    IN  /\ manifestData' = Spread(call.manifestData, call.manifestName,
                                  ManifestEntry(call.manifestName))
        /\ activeTab' = call.manifestName
        /\ fetching' = RemoveAt(fetching, k)
        /\ lastCall' = [handler |-> "getDataSchema", tab |-> call.manifestName,
                         active |-> activeTab]
        /\ UNCHANGED << resolver, openTabs, fetches >>

closeTab(manifestName) ==
    /\ openTabs' = Filter(openTabs, manifestName)
    /\ activeTab' = AfterClose(Filter(openTabs, manifestName))
    /\ lastCall' = [handler |-> "closeTab", tab |-> manifestName,
                     active |-> activeTab]
    /\ UNCHANGED << resolver, manifestData, fetching, fetches >>

\* a click on a nav link
ClickTab == \E tab \in NavTabs : handleTabChange(tab)

\* a click on a row of the Manifest table
ClickManifest == \E manifestName \in ManifestLabels : openNewTab(manifestName)

\* a click on the close button of an open tab
ClickClose == \E tab \in ListSet(openTabs) : closeTab(tab)

\* one of the pending calls of getDataSchema resolves
Resolve == \E k \in 1 .. Len(fetching) : getDataSchema(k)

TabNext == ClickTab \/ ClickManifest \/ ClickClose \/ Resolve

TabSpec == TabInit /\ [][TabNext]_vars

\* ------------------------------------------------------------- tab claims
Last(s) == s[Len(s)]

\* C11, as stated: closing the active view removes it from the open views and
\* makes the most recently opened of the remaining views active, or the
\* Manifest view when none remains.
CloseViewFallback ==
    [][ \A tab \in ListSet(openTabs) :
          (closeTab(tab) /\ activeTab = tab)
             => /\ tab \notin ListSet(openTabs')
                /\ activeTab' = IF openTabs' = << >> THEN "manifest"
                                ELSE Last(openTabs') ]_vars

\* C11, amended: closeTab(name) removes name from openTabs and makes the
\* Manifest view active, whichever tab was active and whichever tabs remain
\* open.
CloseTabToManifest ==
    [][ \A tab \in ListSet(openTabs) :
          closeTab(tab)
             => /\ ListSet(openTabs') = ListSet(openTabs) \ {tab}
                /\ activeTab' = "manifest" ]_vars

\* the active tab was closed while another tab stays open
CloseTabToManifestWitness ==
    /\ lastCall.handler = "closeTab"
    /\ lastCall.active = lastCall.tab
    /\ lastCall.tab \notin ListSet(openTabs)
    /\ lastCall.tab \in DOMAIN manifestData
    /\ fetching = << >>
    /\ openTabs # << >>
    /\ activeTab = "manifest"

\* C12: active tab validity.  In every reachable state of the tabs, under any
\* interleaving of handleTabChange, closeTab, openNewTab and the completion
\* of a pending fetch, activeTab is "manifest", "attributes" or a name in
\* openTabs, so that one tab pane is shown.
ActiveTabValid == activeTab \in {"manifest", "attributes"} \cup ListSet(openTabs)

\* C13: no lost manifest data.  Once every pending fetch has completed, each
\* name in openTabs has an entry in manifestData: the completion of one fetch
\* does not remove the entry written by a fetch that completed earlier.
NoLostManifestData ==
    fetching = << >> => ListSet(openTabs) \subseteq DOMAIN manifestData

\* C14: open tabs are a duplicate-free ordered list.  openTabs never holds a
\* name twice; openNewTab of a name that is open leaves openTabs unchanged and
\* starts no fetch; openNewTab of another name appends it at the end;
\* closeTab removes the named tab only and keeps the order of the others;
\* handleTabChange and the completion of a fetch leave openTabs alone.
OpenTabsDuplicateFree ==
    /\ [](\A k, l \in 1 .. Len(openTabs) : openTabs[k] = openTabs[l] => k = l)
    /\ [][ \A manifestName \in ManifestLabels :
             openNewTab(manifestName)
                => IF manifestName \in ListSet(openTabs)
                   THEN openTabs' = openTabs /\ fetching' = fetching
                                             /\ fetches' = fetches
                   ELSE /\ Len(openTabs') = Len(openTabs) + 1
                        /\ IsPrefix(openTabs, openTabs')
                        /\ Last(openTabs') = manifestName
                        /\ Len(fetching') = Len(fetching) + 1 ]_vars
    /\ [][ \A tab \in ListSet(openTabs) :
             closeTab(tab)
                => /\ Len(openTabs') = Len(openTabs) - 1
                   /\ \E k \in 1 .. Len(openTabs) :
                         /\ openTabs[k] = tab
                         /\ openTabs' = RemoveAt(openTabs, k) ]_vars
    /\ [][ (ClickTab \/ Resolve) => openTabs' = openTabs ]_vars

\* a name that is open was opened again, after another tab had been closed
OpenTabsDuplicateFreeWitness ==
    /\ lastCall.handler = "openNewTab"
    /\ lastCall.tab = openTabs[1]
    /\ activeTab = lastCall.tab
    /\ lastCall.active = "manifest"
    /\ Len(openTabs) = 2
    /\ fetches = 3

====
